---- MODULE Spec2Model ----
(***************************************************************************)
(* Model of the video shape's schema (validator and migrations), of the    *)
(* migration engine that runs such migrations over a document snapshot,    *)
(* of the laser tool's idle state and of the canvas Shape component.       *)
(*                                                                         *)
(* JavaScript objects live on a heap: an address stands for a reference,   *)
(* an object spread allocates a new cell, an assignment to a field changes *)
(* a cell in place.                                                        *)
(***************************************************************************)
EXTENDS Integers, Sequences, FiniteSets, TLC

VARIABLES
    heap,       \* the JS heap of record objects: Seq of [id, typeName, props]
    heap0,      \* the heap as it was when the caller's input was built
    mpc,        \* migrator run: "start", "up", "down"
    mIn,        \* migrator run: address of the version-0 input record
    mUp,        \* migrator run: address of up(input), 0 before
    mDown,      \* migrator run: address of down(up(input)), 0 before
    pc,         \* engine: where one migrate invocation stands
    entry,      \* engine: "load" (upgrade to current) or "downgrade"
    input,      \* engine: the caller's Snapshot
    target,     \* engine: the target VersionVector
    work,       \* engine: the Snapshot being built
    trace,      \* engine: the migration steps applied so far, in order
    ret,        \* engine: what migrate returned
    out,        \* engine: what the entry point handed to its caller
    current,    \* laser tool: the id of the active child state
    enterInfo,  \* laser tool: the info the last transition passed on
    lastEvent,  \* laser tool: the last event dispatched, and the state before
    util,       \* Shape: what the shape's util offers
    shape,      \* Shape: the shape prop of the last render of Shape
    isCulled,   \* Shape: the isCulled prop of the last render of Shape
    inner,      \* Shape: the memoized InnerShape and InnerShapeBackground
    lastRender  \* Shape: what the last render of Shape did to each of them

mvars == <<mpc, mIn, mUp, mDown>>
evars == <<pc, entry, input, target, work, trace, ret, out>>
tvars == <<current, enterInfo, lastEvent>>
svars == <<util, shape, isCulled, inner, lastRender>>
vars == <<heap, heap0, mvars, evars, tvars, svars>>

(***************************************************************************)
(* Values.  Every JS value of a props bag is a record of the same four     *)
(* fields, so that values of different JS types can be compared.           *)
(***************************************************************************)
Num(n) == [kind |-> "number", num |-> n, str |-> "", bool |-> FALSE]
Str(s) == [kind |-> "string", num |-> 0, str |-> s, bool |-> FALSE]
Bool(b) == [kind |-> "boolean", num |-> 0, str |-> "", bool |-> b]
Null == [kind |-> "null", num |-> 0, str |-> "", bool |-> FALSE]

\* A props bag: a JS object, or null/undefined (a record without props).
Obj(f) == [isNull |-> FALSE, obj |-> f]
NoProps == [isNull |-> TRUE, obj |-> [k \in {} |-> Null]]

\* { ...o, [key]: v }: a new object with o's keys and key set to v.
SpreadWith(o, key, v) ==
    [k \in (DOMAIN o) \cup {key} |-> IF k = key THEN v ELSE o[k]]

\* const { [key]: _, ...rest } = o: a new object with o's keys but key.
RestWithout(o, key) ==
    [k \in (DOMAIN o) \ {key} |-> o[k]]

(***************************************************************************)
(* The video shape: its migrations.                                        *)
(***************************************************************************)
Versions_AddUrlProp == 1

\* A plausible slip: currentVersion raised without a migrator added.
videoCurrentVersion_Two == Versions_AddUrlProp + 1
\* currentVersion: Versions.AddUrlProp
videoCurrentVersion == Versions_AddUrlProp

\* Results of a call: the heap after it, the returned reference, and
\* whether it returned (ok) or threw.
Returned(h, a) == [heap |-> h, ref |-> a, ok |-> TRUE]
Threw(h) == [heap |-> h, ref |-> 0, ok |-> FALSE]

\* A plausible slip: url defaults to null instead of ''.
up_NullUrl(h, a) ==
    Returned(Append(h, [h[a] EXCEPT !.props =
                 Obj(SpreadWith(h[a].props.obj, "url", Null))]), Len(h) + 1)
\* up: (shape) => ({ ...shape, props: { ...shape.props, url: '' } }).
\* Spreading null or undefined yields no keys, so up never throws.
up(h, a) ==
    Returned(Append(h, [h[a] EXCEPT !.props =
                 Obj(SpreadWith(h[a].props.obj, "url", Str("")))]), Len(h) + 1)

\* A plausible slip: the rest pattern forgotten, url stays.
down_KeepUrl(h, a) ==
    IF h[a].props.isNull
    THEN Threw(h)
    ELSE Returned(Append(h, [h[a] EXCEPT !.props = Obj(h[a].props.obj)]),
                  Len(h) + 1)
\* A plausible slip: delete shape.props.url; return shape.
down_InPlace(h, a) ==
    IF h[a].props.isNull
    THEN Threw(h)
    ELSE Returned([h EXCEPT ![a].props =
                      Obj(RestWithout(h[a].props.obj, "url"))], a)
\* down: (shape) => { const { url: _, ...props } = shape.props;
\*                    return { ...shape, props } }.
\* Destructuring null or undefined throws a TypeError.
down(h, a) ==
    IF h[a].props.isNull
    THEN Threw(h)
    ELSE Returned(Append(h, [h[a] EXCEPT !.props =
                      Obj(RestWithout(h[a].props.obj, "url"))]), Len(h) + 1)

(***************************************************************************)
(* The video shape: its validator.                                         *)
(***************************************************************************)
AssetIds == {"asset:a"}

stringValidator(v) == v.kind = "string"
numberValidator(v) == v.kind = "number"
booleanValidator(v) == v.kind = "boolean"
nonZeroNumberValidator(v) == v.kind = "number" /\ v.num # 0
opacityValidator(v) == v.kind = "number" /\ v.num >= 0 /\ v.num <= 1
assetIdValidator(v) == v.kind = "string" /\ v.str \in AssetIds
\* V.nullable(): null, or a value V accepts (accepted: what V says of v).
nullable(accepted, v) == v.kind = "null" \/ accepted

VideoPropKeys ==
    {"opacity", "w", "h", "time", "playing", "url", "assetId"}

\* A plausible slip: the url line left out of the validator when the prop
\* was added.
videoPropsValidator_NoUrl(p) ==
    /\ ~p.isNull
    /\ VideoPropKeys \ {"url"} \subseteq DOMAIN p.obj
    /\ DOMAIN p.obj \subseteq VideoPropKeys
    /\ opacityValidator(p.obj["opacity"])
    /\ nonZeroNumberValidator(p.obj["w"])
    /\ nonZeroNumberValidator(p.obj["h"])
    /\ numberValidator(p.obj["time"])
    /\ booleanValidator(p.obj["playing"])
    /\ nullable(assetIdValidator(p.obj["assetId"]), p.obj["assetId"])
\* objectValidator({ opacity, w, h, time, playing, url, assetId }): an
\* object with exactly these keys, each passing its validator.
videoPropsValidator(p) ==
    /\ ~p.isNull
    /\ DOMAIN p.obj = VideoPropKeys
    /\ opacityValidator(p.obj["opacity"])
    /\ nonZeroNumberValidator(p.obj["w"])
    /\ nonZeroNumberValidator(p.obj["h"])
    /\ numberValidator(p.obj["time"])
    /\ booleanValidator(p.obj["playing"])
    /\ stringValidator(p.obj["url"])
    /\ nullable(assetIdValidator(p.obj["assetId"]), p.obj["assetId"])

\* createShapeValidator('video', props): the type tag, then the props.
videoShapeValidator(r) ==
    r.typeName = "video" /\ videoPropsValidator(r.props)

(***************************************************************************)
(* The laser tool: the idle child state and the parent that holds it.      *)
(***************************************************************************)
MaxPoint == 1

EventNames ==
    {"onPointerDown", "onPointerMove", "onPointerUp", "onKeyDown", "onCancel"}

\* The info that comes with an event.
Info(name, point) == [name |-> name, point |-> point]
NoInfo == Info("none", 0)

\* What a handler asks of the parent: nothing, or transition(id, info).
NoTransition == [go |-> FALSE, id |-> "", info |-> NoInfo]
Transition(id, info) == [go |-> TRUE, id |-> id, info |-> info]

Idle_id == "idle"

\* A plausible slip: the info is not passed on.
onPointerDown_DropsInfo(info) == Transition("lasering", NoInfo)
\* onPointerDown = (info) => { this.parent.transition('lasering', info) }
onPointerDown(info) == Transition("lasering", info)

\* The handlers class Idle defines: onPointerDown and no other.
Idle_handle(name, info) ==
    IF name = "onPointerDown" THEN onPointerDown(info) ELSE NoTransition

\* The parent delivers an event to the idle child.
IdleEvent ==
    /\ current = Idle_id
    /\ \E name \in EventNames, point \in 0..MaxPoint :
          LET info == Info(name, point)
              t == Idle_handle(name, info) IN
          /\ current' = IF t.go THEN t.id ELSE current
          /\ enterInfo' = IF t.go THEN t.info ELSE enterInfo
          /\ lastEvent' = [from |-> current, info |-> info,
                           enterBefore |-> enterInfo]
    /\ UNCHANGED <<heap, heap0, mvars, evars, svars>>

\* The parent delivers an event to the lasering child, which keeps the
\* tool where it is or sends it back to idle, with the event's info or
\* with none.
LaseringEvent ==
    /\ current = "lasering"
    /\ \E name \in EventNames, point \in 0..MaxPoint,
          back \in BOOLEAN, withInfo \in BOOLEAN :
          LET info == Info(name, point) IN
          /\ ~back => withInfo
          /\ current' = IF back THEN Idle_id ELSE current
          /\ enterInfo' = IF ~back THEN enterInfo
                          ELSE IF withInfo THEN info ELSE NoInfo
          /\ lastEvent' = [from |-> current, info |-> info,
                           enterBefore |-> enterInfo]
    /\ UNCHANGED <<heap, heap0, mvars, evars, svars>>

(***************************************************************************)
(* The Shape component and its two memoized inner components.  A           *)
(* reference (shape.props, shape.meta) is a number: two references are     *)
(* === exactly when the numbers are equal.                                 *)
(***************************************************************************)
MaxRef == 2

Refs == 1..MaxRef

NoShape == [present |-> FALSE, props |-> 1, meta |-> 1, x |-> 0]
Shapes == [present : {TRUE}, props : Refs, meta : Refs, x : 0..1]

\* (prev, next) => prev.shape.props === next.shape.props
\*                 && prev.shape.meta === next.shape.meta
propsAreEqual(prev, next) == prev.props = next.props /\ prev.meta = next.meta

Unmounted == [mounted |-> FALSE, prev |-> NoShape, did |-> "none"]

\* React.memo(component, propsAreEqual) at one place of the tree: not
\* rendered there, it unmounts; rendered there for the first time, it
\* mounts; otherwise it renders again unless propsAreEqual says the props
\* are equal.
MemoRender(c, wanted, next) ==
    IF ~wanted
    THEN Unmounted
    ELSE IF ~c.mounted
    THEN [mounted |-> TRUE, prev |-> next, did |-> "mount"]
    ELSE IF propsAreEqual(c.prev, next)
    THEN [mounted |-> TRUE, prev |-> next, did |-> "skip"]
    ELSE [mounted |-> TRUE, prev |-> next, did |-> "rerender"]

\* One render of Shape with the props its parent delivers: nothing
\* without a shape; InnerShapeBackground when the util has a background
\* component and the shape is not culled; InnerShape unless the shape is
\* culled and the util lets it unmount.
ShapeRender ==
    /\ lastRender.did # "off"
    /\ \E next \in Shapes \cup {NoShape}, culled \in BOOLEAN :
          LET bg == MemoRender(inner.background,
                      next.present /\ util.backgroundComponent /\ ~culled,
                      next)
              sh == MemoRender(inner.shape,
                      next.present /\ ~(culled /\ util.canUnmount), next) IN
          /\ shape' = next
          /\ isCulled' = culled
          /\ inner' = [shape |-> sh, background |-> bg]
          /\ lastRender' =
                [did |-> "render",
                 sameProps |-> shape.present /\ next.present
                               /\ next.props = shape.props,
                 sameMeta |-> shape.present /\ next.present
                              /\ next.meta = shape.meta]
    /\ UNCHANGED <<util, heap, heap0, mvars, evars, tvars>>

(***************************************************************************)
(* The registry the engine runs with: the video type, and a store scope    *)
(* with three steps.                                                       *)
(***************************************************************************)
storeCurrentVersion == 3

Scopes == {"store", "video"}

CurrentVersion(scope) ==
    IF scope = "video" THEN videoCurrentVersion ELSE storeCurrentVersion

CurrentVersions == [s \in Scopes |-> CurrentVersion(s)]

Registered(typeName) == typeName = "video"

\* A plausible slip: the two functions of the migrator swapped.
videoMigrator_Swapped(dir, seq, h, a) ==
    IF seq = Versions_AddUrlProp
    THEN IF dir = "up" THEN down(h, a) ELSE up(h, a)
    ELSE Threw(h)
\* migrators[seq].up / .down of the video type; a sequence id without a
\* migrator is a call of undefined, which throws.
videoMigrator(dir, seq, h, a) ==
    IF seq = Versions_AddUrlProp
    THEN IF dir = "up" THEN up(h, a) ELSE down(h, a)
    ELSE Threw(h)

\* One step of a per-type scope over its partition of the records, record
\* by record; a throw ends it there, with the heap as the calls left it.
RECURSIVE MigratePartition(_, _, _, _)
MigratePartition(h, recs, dir, seq) ==
    IF recs = <<>>
    THEN [heap |-> h, records |-> <<>>, ok |-> TRUE]
    ELSE IF h[Head(recs)].typeName # "video"
    THEN LET rest == MigratePartition(h, Tail(recs), dir, seq) IN
         [rest EXCEPT !.records = <<Head(recs)>> \o @]
    ELSE LET r == videoMigrator(dir, seq, h, Head(recs)) IN
         IF ~r.ok
         THEN [heap |-> r.heap, records |-> <<>>, ok |-> FALSE]
         ELSE LET rest == MigratePartition(r.heap, Tail(recs), dir, seq) IN
              [rest EXCEPT !.records = <<r.ref>> \o @]

\* One step of the store scope over the whole records sequence.  The
\* store's three steps keep every record as it is.
storeMigrator(h, recs, dir, seq) ==
    IF seq \in 1..storeCurrentVersion
    THEN [heap |-> h, records |-> recs, ok |-> TRUE]
    ELSE [heap |-> h, records |-> <<>>, ok |-> FALSE]

(***************************************************************************)
(* The migration engine: migrate(snapshot, targetVersions), and the two    *)
(* entry points that call it.                                              *)
(***************************************************************************)
NoSnapshot == [records |-> <<>>, versionVector |-> [s \in Scopes |-> 0]]
NoResult == [status |-> "none", snapshot |-> NoSnapshot]
Failure(kind, snap) == [status |-> kind, snapshot |-> snap]
Success(snap) == [status |-> "ok", snapshot |-> snap]

Step(scope, dir, seq) == [scope |-> scope, dir |-> dir, seq |-> seq]

\* The sequence id the next step of a scope applies, from version v.
NextSeq(dir, v) == IF dir = "up" THEN v + 1 ELSE v

\* Whether a scope of the working Snapshot still has steps to take.
\* A plausible slip: <= for <, a step taken at the target.
Pending_Inclusive(scope, dir) ==
    IF dir = "up"
    THEN work.versionVector[scope] <= target[scope]
    ELSE work.versionVector[scope] > target[scope]
Pending(scope, dir) ==
    IF dir = "up"
    THEN work.versionVector[scope] < target[scope]
    ELSE work.versionVector[scope] > target[scope]

\* A plausible slip: the per-type scopes resolved before the store scope.
PhaseOrder_TypesFirst ==
    [check |-> "types", types |-> "storeUp", storeUp |-> "storeDown",
     storeDown |-> "assemble"]
\* The order of the engine's phases: the store scope upward, the per-type
\* scopes, the store scope downward, reassembly.
PhaseOrder ==
    [check |-> "storeUp", storeUp |-> "types", types |-> "storeDown",
     storeDown |-> "assemble"]

\* The scopes whose VersionVector entry is above the registered version.
FutureScopes(vv) == {s \in Scopes : vv[s] > CurrentVersion(s)}

\* The parts of the state a specification leaves alone.
TOff ==
    /\ current = "off" /\ enterInfo = NoInfo
    /\ lastEvent = [from |-> "off", info |-> NoInfo, enterBefore |-> NoInfo]
SOff ==
    /\ util = [backgroundComponent |-> FALSE, canUnmount |-> FALSE]
    /\ shape = NoShape /\ isCulled = FALSE
    /\ inner = [shape |-> Unmounted, background |-> Unmounted]
    /\ lastRender = [did |-> "off", sameProps |-> FALSE, sameMeta |-> FALSE]
MOff == mpc = "off" /\ mIn = 0 /\ mUp = 0 /\ mDown = 0
EOff ==
    /\ pc = "off" /\ entry = "none" /\ input = NoSnapshot
    /\ target = NoSnapshot.versionVector /\ work = NoSnapshot
    /\ trace = <<>> /\ ret = NoResult /\ out = NoResult

EInit ==
    /\ heap = <<>> /\ heap0 = <<>>
    /\ pc = "idle" /\ entry = "none" /\ input = NoSnapshot
    /\ target = NoSnapshot.versionVector /\ work = NoSnapshot
    /\ trace = <<>> /\ ret = NoResult /\ out = NoResult
    /\ MOff /\ TOff /\ SOff

\* The caller builds a Snapshot and calls an entry point.  Loading targets
\* every scope's registered current version.
Call(e, recs, vv, tv) ==
    /\ pc = "idle"
    /\ heap' = recs
    /\ heap0' = recs
    /\ entry' = e
    /\ input' = [records |-> [i \in 1..Len(recs) |-> i], versionVector |-> vv]
    /\ target' = IF e = "load" THEN CurrentVersions ELSE tv
    /\ work' = input'
    /\ pc' = "check"
    /\ UNCHANGED <<trace, ret, out, mvars, tvars, svars>>

\* Any entry above its scope's registered version fails the invocation
\* before any step.
CheckVersions ==
    /\ pc = "check"
    /\ IF FutureScopes(input.versionVector) # {}
       THEN /\ ret' = Failure("UnsupportedFutureVersion", input)
            /\ pc' = "returned"
       ELSE /\ ret' = ret
            /\ pc' = PhaseOrder["check"]
    /\ UNCHANGED <<heap, heap0, entry, input, target, work, trace, out, mvars, tvars, svars>>

\* The store scope, one step per action: upward before the types,
\* downward after them.
StoreStep(phase, dir) ==
    /\ pc = phase
    /\ IF Pending("store", dir)
       THEN LET v == work.versionVector["store"]
                seq == NextSeq(dir, v)
                r == storeMigrator(heap, work.records, dir, seq) IN
            /\ trace' = Append(trace, Step("store", dir, seq))
            /\ heap' = r.heap
            /\ IF r.ok
               THEN /\ work' = [records |-> r.records,
                                versionVector |->
                                  [work.versionVector EXCEPT !["store"] =
                                      IF dir = "up" THEN v + 1 ELSE v - 1]]
                    /\ UNCHANGED <<pc, ret>>
               ELSE /\ ret' = Failure("MigrationDefinitionFault", input)
                    /\ pc' = "returned"
                    /\ work' = work
       ELSE /\ pc' = PhaseOrder[phase]
            /\ UNCHANGED <<heap, work, trace, ret>>
    /\ UNCHANGED <<heap0, entry, input, target, out, mvars, tvars, svars>>

StoreUp == StoreStep("storeUp", "up")
StoreDown == StoreStep("storeDown", "down")

\* The per-type scopes, one step per action, in either direction.
TypeStep ==
    /\ pc = "types"
    /\ IF Pending("video", "up") \/ Pending("video", "down")
       THEN LET v == work.versionVector["video"]
                dir == IF Pending("video", "up") THEN "up" ELSE "down"
                seq == NextSeq(dir, v)
                r == MigratePartition(heap, work.records, dir, seq) IN
            /\ trace' = Append(trace, Step("video", dir, seq))
            /\ heap' = r.heap
            /\ IF r.ok
               THEN /\ work' = [records |-> r.records,
                                versionVector |->
                                  [work.versionVector EXCEPT !["video"] =
                                      IF dir = "up" THEN v + 1 ELSE v - 1]]
                    /\ UNCHANGED <<pc, ret>>
               ELSE /\ ret' = Failure("MigrationDefinitionFault", input)
                    /\ pc' = "returned"
                    /\ work' = work
       ELSE /\ pc' = PhaseOrder["types"]
            /\ UNCHANGED <<heap, work, trace, ret>>
    /\ UNCHANGED <<heap0, entry, input, target, out, mvars, tvars, svars>>

\* Reassemble: the new Snapshot carries the target VersionVector.
Assemble ==
    /\ pc = "assemble"
    /\ ret' = Success([records |-> work.records, versionVector |-> target])
    /\ pc' = "returned"
    /\ UNCHANGED <<heap, heap0, entry, input, target, work, trace, out, mvars, tvars, svars>>

\* What validation says of a migrated Snapshot.
Validate(h, snap) ==
    IF \E i \in 1..Len(snap.records) : ~Registered(h[snap.records[i]].typeName)
    THEN "UnknownRecordType"
    ELSE IF \E i \in 1..Len(snap.records) :
              ~videoShapeValidator(h[snap.records[i]])
    THEN "ValidationError"
    ELSE "ok"

\* The entry point hands out migrate's failure as it is; on success the
\* load entry validates every record, the downgrade entry hands the
\* Snapshot to the transport.
HandOut ==
    /\ pc = "returned"
    /\ out' = IF ret.status # "ok" \/ entry = "downgrade"
              THEN ret
              ELSE IF Validate(heap, ret.snapshot) = "ok"
              THEN ret
              ELSE Failure(Validate(heap, ret.snapshot), input)
    /\ pc' = "done"
    /\ UNCHANGED <<heap, heap0, entry, input, target, work, trace, ret, mvars, tvars, svars>>

(***************************************************************************)
(* Inputs of the engine.                                                   *)
(***************************************************************************)
MaxRecords == 2
MaxFuture == 1

V0Props(w) ==
    Obj([k \in VideoPropKeys \ {"url"} |->
          CASE k = "opacity" -> Num(1)
            [] k = "w" -> Num(w)
            [] k = "h" -> Num(50)
            [] k = "time" -> Num(0)
            [] k = "playing" -> Bool(FALSE)
            [] OTHER -> Null])

\* What a stored record may hold: a video at version 0, a video at
\* version 1 with a good or a bad url, a video with a zero width, a video
\* without props, and a record of a type nobody registered.
RecordTemplates ==
    { [typeName |-> "video", props |-> V0Props(100)],
      [typeName |-> "video",
       props |-> Obj(SpreadWith(V0Props(100).obj, "url", Str("http://v")))],
      [typeName |-> "video",
       props |-> Obj(SpreadWith(V0Props(100).obj, "url", Num(7)))],
      [typeName |-> "video",
       props |-> Obj(SpreadWith(V0Props(0).obj, "url", Str("")))],
      [typeName |-> "video", props |-> NoProps],
      [typeName |-> "ghost", props |-> V0Props(100)] }

RecordId(i) == IF i = 1 THEN "r1" ELSE IF i = 2 THEN "r2" ELSE "r3"

RecordLists ==
    UNION { { [i \in 1..n |->
                [id |-> RecordId(i), typeName |-> f[i].typeName,
                 props |-> f[i].props]] : f \in [1..n -> RecordTemplates] } :
            n \in 0..MaxRecords }

InputVectors ==
    [Scopes -> 0..(storeCurrentVersion + MaxFuture)] \cap
    { vv \in [Scopes -> 0..(storeCurrentVersion + MaxFuture)] :
        \A s \in Scopes : vv[s] <= CurrentVersion(s) + MaxFuture }

TargetVectors ==
    { tv \in [Scopes -> 0..storeCurrentVersion] :
        \A s \in Scopes : tv[s] <= CurrentVersion(s) }

Invoke ==
    /\ pc = "idle"
    /\ \E e \in {"load", "downgrade"}, recs \in RecordLists,
          vv \in InputVectors, tv \in TargetVectors :
            /\ e = "load" => tv = CurrentVersions
            /\ Call(e, recs, vv, tv)

ENext ==
    \/ Invoke
    \/ CheckVersions
    \/ StoreUp
    \/ TypeStep
    \/ StoreDown
    \/ Assemble
    \/ HandOut

Spec == EInit /\ [][ENext]_vars

(***************************************************************************)
(* Inputs.                                                                 *)
(***************************************************************************)
RecordIds == {"r1", "r2"}

\* Props bags valid at version 0 of the video scope: no url.
PropsV0 ==
    { Obj([k \in VideoPropKeys \ {"url"} |->
            CASE k = "opacity" -> Num(o)
              [] k = "w" -> Num(w)
              [] k = "h" -> Num(hh)
              [] k = "time" -> Num(t)
              [] k = "playing" -> Bool(pl)
              [] OTHER -> as]) :
        o \in {0, 1}, w \in {100, -3}, hh \in {50}, t \in {0, 7},
        pl \in BOOLEAN, as \in {Null, Str("asset:a")} }

VideoV0 == [id : RecordIds, typeName : {"video"}, props : PropsV0]

(***************************************************************************)
(* A migrator run: one version-0 video record through up, then down.       *)
(***************************************************************************)
MInit ==
    /\ \E r \in VideoV0 : heap = <<r>>
    /\ heap0 = heap
    /\ mpc = "start" /\ mIn = 1 /\ mUp = 0 /\ mDown = 0
    /\ EOff /\ TOff /\ SOff

ApplyUp ==
    /\ mpc = "start"
    /\ LET res == up(heap, mIn) IN
        /\ heap' = res.heap
        /\ mUp' = res.ref
    /\ mpc' = "up"
    /\ UNCHANGED <<heap0, mIn, mDown, evars, tvars, svars>>

ApplyDown ==
    /\ mpc = "up"
    /\ LET res == down(heap, mUp) IN
        /\ res.ok
        /\ heap' = res.heap
        /\ mDown' = res.ref
    /\ mpc' = "down"
    /\ UNCHANGED <<heap0, mIn, mUp, evars, tvars, svars>>

MNext == ApplyUp \/ ApplyDown

MigratorSpec == MInit /\ [][MNext]_vars

(***************************************************************************)
(* The laser tool and the Shape component as specifications.               *)
(***************************************************************************)
\* The tool starts in its idle child, entered with no info.
TInit ==
    /\ current = Idle_id /\ enterInfo = NoInfo
    /\ lastEvent = [from |-> "none", info |-> NoInfo, enterBefore |-> NoInfo]
    /\ heap = <<>> /\ heap0 = <<>>
    /\ MOff /\ EOff /\ SOff

TNext == IdleEvent \/ LaseringEvent

ToolSpec == TInit /\ [][TNext]_vars

\* Nothing is rendered yet; the util is what it is for the whole run.
SInit ==
    /\ util \in [backgroundComponent : BOOLEAN, canUnmount : BOOLEAN]
    /\ shape = NoShape /\ isCulled = FALSE
    /\ inner = [shape |-> Unmounted, background |-> Unmounted]
    /\ lastRender = [did |-> "none", sameProps |-> FALSE, sameMeta |-> FALSE]
    /\ heap = <<>> /\ heap0 = <<>>
    /\ MOff /\ EOff /\ TOff

SNext == ShapeRender

ShapeSpec == SInit /\ [][SNext]_vars

(***************************************************************************)
(* Properties of the migrators and of the engine.                          *)
(***************************************************************************)
\* The record of the concrete scenario: r1, a video at version 0.
ScenarioRecord ==
    [id |-> "r1", typeName |-> "video",
     props |-> Obj([k \in VideoPropKeys \ {"url"} |->
                     CASE k = "opacity" -> Num(1)
                       [] k = "w" -> Num(100)
                       [] k = "h" -> Num(50)
                       [] k = "time" -> Num(0)
                       [] k = "playing" -> Bool(FALSE)
                       [] OTHER -> Null])]

\* C1: the AddUrlProp up step takes a version-0 video record to a record
\* whose props.url is the empty string and whose id, typeName and every
\* other prop are the input's, and leaves the input record as it was.
C1_UpAddsEmptyUrl ==
    mpc \in {"up", "down"} =>
        LET i == heap0[mIn]
            o == heap[mUp] IN
        /\ "url" \in DOMAIN o.props.obj
        /\ o.props.obj["url"] = Str("")
        /\ o.id = i.id
        /\ o.typeName = i.typeName
        /\ DOMAIN o.props.obj = (DOMAIN i.props.obj) \cup {"url"}
        /\ \A k \in DOMAIN i.props.obj : o.props.obj[k] = i.props.obj[k]
        /\ heap[mIn] = i

C1_Witness ==
    /\ mpc = "up"
    /\ heap0[mIn] = ScenarioRecord
    /\ "url" \notin DOMAIN heap0[mIn].props.obj
    /\ "url" \in DOMAIN heap[mUp].props.obj

\* C2: round trip: down(up(r)) is r field for field, for every video
\* record r valid at version 0: the same id and typeName, the same set of
\* prop keys (url dropped), the same values.
C2_RoundTrip ==
    mpc = "down" =>
        LET i == heap0[mIn]
            o == heap[mDown] IN
        /\ o.id = i.id
        /\ o.typeName = i.typeName
        /\ ~o.props.isNull
        /\ DOMAIN o.props.obj = DOMAIN i.props.obj
        /\ "url" \notin DOMAIN o.props.obj
        /\ \A k \in DOMAIN i.props.obj : o.props.obj[k] = i.props.obj[k]

C2_Witness ==
    /\ mpc = "down"
    /\ heap0[mIn] = ScenarioRecord
    /\ "url" \in DOMAIN heap[mUp].props.obj
    /\ "url" \notin DOMAIN heap[mDown].props.obj

\* C3: a VersionVector entry above its scope's registered current version
\* (above 1 for the video scope, above 3 for the store scope) makes migrate
\* return UnsupportedFutureVersion with no step applied to any record of
\* any scope, whatever the target versions.
C3_FutureVersionRejected ==
    (pc # "idle" /\ (input.versionVector["video"] > 1
                     \/ input.versionVector["store"] > 3)) =>
        /\ trace = <<>>
        /\ heap = heap0
        /\ work = input
        /\ pc # "check" => ret = Failure("UnsupportedFutureVersion", input)
        /\ pc = "done" => out.status = "UnsupportedFutureVersion"

C3_Witness ==
    /\ pc = "done"
    /\ input.versionVector["video"] = 2
    /\ input.versionVector["store"] < target["store"]
    /\ Len(input.records) > 0
    /\ out.status = "UnsupportedFutureVersion"

\* The caller's records are on the heap as they were at the call.
InputUntouched ==
    \A i \in 1..Len(input.records) :
        heap[input.records[i]] = heap0[input.records[i]]

\* C4: all or nothing: a failure of any scope at any step comes with the
\* caller's Snapshot itself, the same records and VersionVector, none of
\* the caller's records changed; a success has every scope at its target.
C4_AllOrNothing ==
    /\ ret.status \notin {"none", "ok"} =>
          ret.snapshot = input /\ InputUntouched
    /\ (pc = "done" /\ out.status # "ok") =>
          out.snapshot = input /\ InputUntouched
    /\ ret.status = "ok" =>
          /\ ret.snapshot.versionVector = target
          /\ work.versionVector = target

C4_Witness ==
    /\ pc = "done"
    /\ out.status = "MigrationDefinitionFault"
    /\ Len(trace) >= 2
    /\ trace[1].scope = "store"
    /\ trace[Len(trace)].scope = "video"
    /\ work.versionVector # input.versionVector
    /\ Len(heap) > Len(heap0)

\* The steps of one scope, in the order they were applied.
ScopeTrace(scope) == SelectSeq(trace, LAMBDA st : st.scope = scope)

\* The path from version v to version t, in closed form.
ExpectedPath(scope, v, t) ==
    IF t >= v
    THEN [i \in 1..(t - v) |-> [scope |-> scope, dir |-> "up", seq |-> v + i]]
    ELSE [i \in 1..(v - t) |->
            [scope |-> scope, dir |-> "down", seq |-> v - i + 1]]

VideoRecords(snap) ==
    {snap.records[i] : i \in {j \in 1..Len(snap.records) :
                                heap[snap.records[j]].typeName = "video"}}

\* C5: for a scope at version v with target t, the steps applied are
\* up(v+1), ..., up(t) in ascending order when t > v and down(v), ...,
\* down(t+1) in descending order when t < v: at any moment a prefix of
\* that path, on success the whole of it, so |t - v| steps and none
\* twice; and the records come out of the steps of that direction (a
\* video record has url '' after up(1) and no url after down(1)).
C5_MigrationPath ==
    pc # "idle" =>
        \A s \in Scopes :
            LET got == ScopeTrace(s)
                v == input.versionVector[s]
                t == target[s]
                exp == ExpectedPath(s, v, t) IN
            /\ Len(got) <= Len(exp)
            /\ \A i \in 1..Len(got) : got[i] = exp[i]
            /\ ret.status = "ok" =>
                  /\ got = exp
                  /\ Len(got) = IF t >= v THEN t - v ELSE v - t
                  /\ \A i, j \in 1..Len(got) : i # j => got[i] # got[j]
                  /\ (s = "video" /\ t > v) =>
                        \A a \in VideoRecords(ret.snapshot) :
                            /\ "url" \in DOMAIN heap[a].props.obj
                            /\ heap[a].props.obj["url"] = Str("")
                  /\ (s = "video" /\ t < v) =>
                        \A a \in VideoRecords(ret.snapshot) :
                            "url" \notin DOMAIN heap[a].props.obj

C5_Witness ==
    /\ ret.status = "ok"
    /\ input.versionVector["store"] = 0 /\ target["store"] = 3
    /\ input.versionVector["video"] = 1 /\ target["video"] = 0
    /\ Len(ScopeTrace("store")) = 3
    /\ Len(ScopeTrace("video")) = 1
    /\ VideoRecords(ret.snapshot) # {}

\* C6: within one invocation no store-scope up step comes after a
\* per-type up step, and no store-scope down step comes before a per-type
\* down step.
C6_StoreOrder ==
    \A i, j \in 1..Len(trace) :
        i < j =>
            /\ ~(/\ trace[i].scope # "store" /\ trace[i].dir = "up"
                 /\ trace[j].scope = "store" /\ trace[j].dir = "up")
            /\ ~(/\ trace[i].scope = "store" /\ trace[i].dir = "down"
                 /\ trace[j].scope # "store" /\ trace[j].dir = "down")

C6_Witness ==
    /\ ret.status = "ok"
    /\ \E i, j \in 1..Len(trace) :
          /\ i < j
          /\ trace[i] = [scope |-> "store", dir |-> "up", seq |-> 3]
          /\ trace[j] = [scope |-> "video", dir |-> "up", seq |-> 1]

\* C7: migrating a Snapshot to its own VersionVector, every entry within
\* the registered versions, applies no step in any scope, does not fail,
\* goes on until the entry point has handed out its result, and returns a
\* Snapshot equal to the input.
C7_NoOpMigration ==
    (/\ pc # "idle"
     /\ target = input.versionVector
     /\ \A s \in Scopes : input.versionVector[s] <= CurrentVersion(s)) =>
        /\ trace = <<>>
        /\ heap = heap0
        /\ ret.status \in {"none", "ok"}
        /\ pc # "done" => ENABLED ENext
        /\ pc \in {"returned", "done"} => ret = Success(input)
        /\ (pc = "done" /\ entry = "downgrade") => out = Success(input)

C7_Witness ==
    /\ pc = "done"
    /\ entry = "downgrade"
    /\ target = input.versionVector
    /\ input.versionVector = [s \in Scopes |-> IF s = "store" THEN 2 ELSE 1]
    /\ Len(input.records) = 2
    /\ out.status = "ok"

\* What the registered validators accept, written out for the video type.
PassesContract(r) ==
    /\ r.typeName = "video"
    /\ ~r.props.isNull
    /\ DOMAIN r.props.obj =
          {"opacity", "w", "h", "time", "playing", "url", "assetId"}
    /\ r.props.obj["opacity"].kind = "number"
    /\ r.props.obj["w"].kind = "number" /\ r.props.obj["w"].num # 0
    /\ r.props.obj["h"].kind = "number" /\ r.props.obj["h"].num # 0
    /\ r.props.obj["time"].kind = "number"
    /\ r.props.obj["playing"].kind = "boolean"
    /\ r.props.obj["url"].kind = "string"
    /\ r.props.obj["assetId"].kind \in {"null", "string"}

\* C8 as claimed: whatever the entry point and the targets, a Snapshot
\* handed out holds only records that pass their type's validator.
C8_EveryHandedOutSnapshotValid ==
    (pc = "done" /\ out.status = "ok") =>
        \A i \in 1..Len(out.snapshot.records) :
            PassesContract(heap[out.snapshot.records[i]])

\* C8 as amended: a Snapshot handed out by the upgrade-to-current entry
\* holds only records that pass their type's validator; a failure is one
\* of the typed failures; a Snapshot handed out by the downgrade entry
\* with the video scope taken from version 1 to version 0 holds video
\* records without url.
C8_HandedOutSnapshots ==
    /\ (pc = "done" /\ out.status = "ok" /\ entry = "load") =>
          \A i \in 1..Len(out.snapshot.records) :
              PassesContract(heap[out.snapshot.records[i]])
    /\ (/\ pc = "done" /\ out.status = "ok" /\ entry = "downgrade"
        /\ input.versionVector["video"] = 1 /\ target["video"] = 0) =>
          \A a \in VideoRecords(out.snapshot) :
              "url" \notin DOMAIN heap[a].props.obj
    /\ pc = "done" =>
          out.status \in {"ok", "ValidationError", "UnknownRecordType",
                          "UnsupportedFutureVersion",
                          "MigrationDefinitionFault"}

C8_Witness ==
    /\ pc = "done" /\ out.status = "ok" /\ entry = "load"
    /\ Len(out.snapshot.records) = 2
    /\ input.versionVector["video"] = 0
    /\ Len(ScopeTrace("video")) = 1

(***************************************************************************)
(* Properties of the Shape component and of the laser tool.                *)
(***************************************************************************)
\* C9: a render of Shape that leaves the shape's props reference as it was
\* never makes the mounted InnerShape or InnerShapeBackground render
\* again.
C9_RerenderOnlyWhenPropsChange ==
    lastRender.sameProps =>
        /\ inner.shape.did # "rerender"
        /\ inner.background.did # "rerender"

\* What the comparator does give: a mounted inner component renders again
\* only when the props reference or the meta reference changed.
RerenderOnlyWhenPropsOrMetaChange ==
    (lastRender.sameProps /\ lastRender.sameMeta) =>
        /\ inner.shape.did # "rerender"
        /\ inner.background.did # "rerender"

\* C10: a pointer-down event delivered while idle is active takes the
\* tool to lasering with that event's info; any other event delivered
\* while idle is active leaves the tool in idle, entered as it was.
C10_IdleLeavesOnPointerDownOnly ==
    lastEvent.from = "idle" =>
        IF lastEvent.info.name = "onPointerDown"
        THEN current = "lasering" /\ enterInfo = lastEvent.info
        ELSE current = "idle" /\ enterInfo = lastEvent.enterBefore

C10_Witness ==
    /\ lastEvent.from = "idle"
    /\ lastEvent.info = Info("onPointerDown", 1)
    /\ lastEvent.enterBefore = Info("onCancel", 0)
    /\ current = "lasering"
    /\ enterInfo = Info("onPointerDown", 1)

====
